---- MODULE Spec2Model ----
\* TinyBase: a typed table with secondary indexes that catch up lazily from a
\* per-index change log, and the By/And/Or query evaluator built on them.
\* Index maintenance is modelled from src/src/index.rs, the query layer from
\* src/tinybase/src/query_builder.rs. The table (insert/update/delete/
\* create_index) and the change-log subscriber are not part of the sources at
\* hand and are modelled from the specification document.
EXTENDS Integers, Sequences, FiniteSets, TLC

\* ---------------------------------------------------------------- bounds
\* Number of ids the table may mint.
MaxId == 2
\* Longest change log of one index: table writes wait when a log is this long.
MaxPending == 2
\* Indexes a session of the specification Spec creates.
MaxIndexes == 1
\* Times a session closes the database and opens it again.
MaxCloses == 1
\* Threads that read one index at the same time.
MaxReaders == 2
\* Longest change log while threads read: writing threads wait at this length.
MaxBacklog == 1
\* Table writes the writing threads make while MaxReaders threads read.
MaxWrites == 3

\* ---------------------------------------------------------------- universe
Ids == 1 .. MaxId
\* Values of the table's type T: 1 and 2 stand for the strings "value1" and
\* "value2" of the tests, which have the same length.
Data == {1, 2}
\* "No row under this id" in the primary sub-tree.
NoData == 0
\* The two indexes of the query builder's tests.
Indexes == {"name", "length"}

\* The length of every value of Data as a string.
ValueLen == 6

\* The key extractor of an index (the closure given to create_index):
\* "name" is |value| value.to_owned(), "length" is |value| value.len().
key_func(idx, data) ==
  IF idx = "name" THEN data ELSE ValueLen

Keys(idx) == {key_func(idx, d) : d \in Data}

Record(id, data) == [id |-> id, data |-> data]

\* subscriber::Event
InsertEvent(record) == [type |-> "Insert", record |-> record]
RemoveEvent(record) == [type |-> "Remove", record |-> record]
UpdateEvent(id, old_data, new_data) ==
  [type |-> "Update", id |-> id, old_data |-> old_data, new_data |-> new_data]

Readers == 1 .. MaxReaders

\* A thread that is not inside a call. A thread inside Index::select keeps the
\* index and the query of the call, the sub-tree writes still to make for the
\* event it received (todo), the bucket it read for the next of them (got),
\* the ids of the looked-up bucket still to hydrate (uuids) and the records
\* hydrated so far (out). History kept with it: the events published before
\* the call began that are still in the channel (backlog), the threads that
\* hold one of those events not yet applied (owed), and the threads that
\* received an event before its own and have not yet applied it (after).
Idle ==
  [pc |-> "idle", index |-> "", query |-> 0, todo |-> <<>>, got |-> <<>>,
   uuids |-> <<>>, out |-> <<>>, backlog |-> 0, owed |-> {}, after |-> {}]

VARIABLES
  table_data,    \* primary sub-tree: id -> data, NoData when the id has no row
  next_id,       \* the next id the table mints
  tree_names,    \* names of the index sub-trees the engine holds
  indexed_data,  \* per index, its sub-tree: key -> list of ids (present keys only)
  open,          \* indexes that have a live handle and subscriber
  rx,            \* per index, the change log not yet received
  ret,           \* the last call and what it returned
  closes,        \* how many times the database was closed and opened again
  threads,       \* per reading thread, where it is inside Index::select
  writes         \* how many table writes the writing threads have made

vars ==
  <<table_data, next_id, tree_names, indexed_data, open, rx, ret, closes, threads, writes>>

\* ---------------------------------------------------------------- sequences
Range(s) == {s[n] : n \in 1 .. Len(s)}

RemoveAt(s, pos) == [n \in 1 .. (Len(s) - 1) |-> IF n < pos THEN s[n] ELSE s[n + 1]]

\* ---------------------------------------------------------------- index.rs
EmptyTree == <<>>

TreeRemove(tree, key) == [k \in (DOMAIN tree) \ {key} |-> tree[k]]

TreeInsert(tree, key, value) ==
  [k \in (DOMAIN tree) \cup {key} |-> IF k = key THEN value ELSE tree[k]]

\* Mutant of Index_insert: the bucket is overwritten instead of extended.
Index_insert_overwrite(tree, idx, record) ==
  TreeInsert(tree, key_func(idx, record.data), <<record.id>>)

\* IndexInner::insert: append the id to the bucket of the record's key.
Index_insert(tree, idx, record) ==
  LET key == key_func(idx, record.data) IN
  IF key \in DOMAIN tree
  THEN TreeInsert(tree, key, Append(tree[key], record.id))
  ELSE TreeInsert(tree, key, <<record.id>>)

\* Mutant of Index_delete: the id is always taken out in place, also when it
\* is the last one of its bucket.
Index_delete_in_place(tree, idx, record) ==
  LET key == key_func(idx, record.data) IN
  IF key \in DOMAIN tree
  THEN TreeInsert(tree, key, SelectSeq(tree[key], LAMBDA id : id # record.id))
  ELSE tree

\* IndexInner::delete: a bucket of fewer than two ids is removed whole, else
\* the first occurrence of the id is taken out of it.
Index_delete(tree, idx, record) ==
  LET key == key_func(idx, record.data) IN
  IF key \in DOMAIN tree
  THEN LET index_values == tree[key] IN
       IF Len(index_values) < 2
       THEN TreeRemove(tree, key)
       ELSE IF \E pos \in 1 .. Len(index_values) : index_values[pos] = record.id
            THEN LET pos == CHOOSE p \in 1 .. Len(index_values) :
                              /\ index_values[p] = record.id
                              /\ \A q \in 1 .. (p - 1) : index_values[q] # record.id
                 IN TreeInsert(tree, key, RemoveAt(index_values, pos))
            ELSE tree
  ELSE tree

\* One arm of commit_log's match.
ApplyEvent(tree, idx, event) ==
  IF event.type = "Remove" THEN Index_delete(tree, idx, event.record)
  ELSE IF event.type = "Insert" THEN Index_insert(tree, idx, event.record)
  ELSE Index_insert(Index_delete(tree, idx, Record(event.id, event.old_data)),
                    idx, Record(event.id, event.new_data))

\* IndexInner::commit_log: receive until the channel is empty, applying each event.
RECURSIVE commit_log(_, _, _)
commit_log(tree, idx, events) ==
  IF events = <<>> THEN tree
  ELSE commit_log(ApplyEvent(tree, idx, Head(events)), idx, Tail(events))

\* IndexInner::sync: clear, then insert every row of the table in key order.
RECURSIVE SyncFrom(_, _, _, _)
SyncFrom(tree, idx, table, id) ==
  IF id > MaxId THEN tree
  ELSE IF table[id] # NoData
       THEN SyncFrom(Index_insert(tree, idx, Record(id, table[id])), idx, table, id + 1)
       ELSE SyncFrom(tree, idx, table, id + 1)

Index_sync(idx, table) == SyncFrom(EmptyTree, idx, table, 1)

\* The second half of IndexInner::select: read the bucket, then fetch each id
\* from the table, skipping ids the table no longer has.
RECURSIVE Hydrate(_, _)
Hydrate(uuids, table) ==
  IF uuids = <<>> THEN <<>>
  ELSE IF table[Head(uuids)] # NoData
       THEN <<Record(Head(uuids), table[Head(uuids)])>> \o Hydrate(Tail(uuids), table)
       ELSE Hydrate(Tail(uuids), table)

Index_lookup(tree, table, query) ==
  IF query \in DOMAIN tree THEN Hydrate(tree[query], table) ELSE <<>>

\* IndexInner::select: drain the change log into the sub-tree, then look up.
\* Yields the records and the sub-tree the drain leaves behind.
Index_select(tree, idx, events, table, query) ==
  LET drained == commit_log(tree, idx, events) IN
  [out |-> Index_lookup(drained, table, query), tree |-> drained]

\* Mutant of Index_new: the sub-tree is trusted as it is, never synced.
Index_new_trusting(idx, names, tree, table) == tree

\* IndexInner::new: open the sub-tree; sync only when the engine did not have it.
Index_new(idx, names, tree, table) ==
  LET need_sync == idx \notin names IN
  IF need_sync THEN Index_sync(idx, table) ELSE tree

\* ---------------------------------------------------------------- query_builder.rs
\* QueryCondition
By(idx, value) == [kind |-> "By", index |-> idx, value |-> value]
And(left, right) == [kind |-> "And", left |-> left, right |-> right]
Or(left, right) == [kind |-> "Or", left |-> left, right |-> right]

\* Mutant of RetainIn: the walk is over the right result, keeping its records
\* whose id appears in the left one.
RECURSIVE RetainIn_swapped(_, _)
RetainIn_swapped(records, others) ==
  IF others = <<>> THEN <<>>
  ELSE IF \E n \in 1 .. Len(records) : Head(others).id = records[n].id
       THEN <<Head(others)>> \o RetainIn_swapped(records, Tail(others))
       ELSE RetainIn_swapped(records, Tail(others))

\* The records of `records` whose id appears in `others`, in order (Vec::retain
\* with the any() closure of the And arm).
RECURSIVE RetainIn(_, _)
RetainIn(records, others) ==
  IF records = <<>> THEN <<>>
  ELSE IF \E n \in 1 .. Len(others) : Head(records).id = others[n].id
       THEN <<Head(records)>> \o RetainIn(Tail(records), others)
       ELSE RetainIn(Tail(records), others)

\* Mutant of RetainUnseen: only the id of the record just before is remembered.
RECURSIVE RetainUnseen_last(_, _)
RetainUnseen_last(records, seen) ==
  IF records = <<>> THEN <<>>
  ELSE IF Head(records).id \in Range(seen)
       THEN RetainUnseen_last(Tail(records), seen)
       ELSE <<Head(records)>> \o RetainUnseen_last(Tail(records), <<Head(records).id>>)

\* The Or arm's retain: walk once, keeping a record unless its id is in `seen`.
RECURSIVE RetainUnseen(_, _)
RetainUnseen(records, seen) ==
  IF records = <<>> THEN <<>>
  ELSE IF Head(records).id \in Range(seen)
       THEN RetainUnseen(Tail(records), seen)
       ELSE <<Head(records)>> \o RetainUnseen(Tail(records), Append(seen, Head(records).id))

\* QueryBuilder::select_recursive. Every By leaf runs Index::select, which
\* drains that index, so the evaluation threads the sub-trees and the logs:
\* left is evaluated first, right on the state left leaves behind.
RECURSIVE select_recursive(_, _, _, _)
select_recursive(condition, trees, chans, table) ==
  IF condition.kind = "By"
  THEN LET idx == condition.index
           got == Index_select(trees[idx], idx, chans[idx], table, condition.value)
       IN [out |-> got.out,
           trees |-> [trees EXCEPT ![idx] = got.tree],
           chans |-> [chans EXCEPT ![idx] = <<>>]]
  ELSE LET left == select_recursive(condition.left, trees, chans, table)
           right == select_recursive(condition.right, left.trees, left.chans, table)
       IN IF condition.kind = "And"
          THEN [out |-> RetainIn(left.out, right.out),
                trees |-> right.trees, chans |-> right.chans]
          ELSE [out |-> RetainUnseen(left.out \o right.out, <<>>),
                trees |-> right.trees, chans |-> right.chans]

\* The message of the error check_valid returns.
NoCondition == "No search condition provided"
Ok(value) == [ok |-> TRUE, value |-> value]
Err(msg) == [ok |-> FALSE, error |-> msg]

\* Mutant of check_valid: every builder passes.
check_valid_always(condition) == TRUE

\* QueryBuilder::check_valid on the Option<QueryCondition> (a list of at most one).
check_valid(condition) == condition # <<>>
\* Option::unwrap on None.
Panic == [ok |-> FALSE, error |-> "unwrap on None"]

\* ---------------------------------------------------------------- the table
\* Fan-out: every subscribed index receives the events, in publish order.
Publish(chans, subscribers, events) ==
  [idx \in Indexes |-> IF idx \in subscribers THEN chans[idx] \o events ELSE chans[idx]]

\* Table::update(ids, new_data): each id the table has is rewritten and an
\* Update event published; unknown ids are skipped.
RECURSIVE Table_update_rows(_, _, _)
Table_update_rows(table, ids, new_data) ==
  IF ids = <<>> THEN [table |-> table, events |-> <<>>, out |-> <<>>]
  ELSE LET id == Head(ids) IN
       IF table[id] = NoData
       THEN Table_update_rows(table, Tail(ids), new_data)
       ELSE LET rest == Table_update_rows([table EXCEPT ![id] = new_data], Tail(ids), new_data)
            IN [table |-> rest.table,
                events |-> <<UpdateEvent(id, table[id], new_data)>> \o rest.events,
                out |-> <<Record(id, new_data)>> \o rest.out]

\* Table::delete(id): a row that is there is removed and a Remove event
\* published; the removed record is returned (a list of at most one).
Table_delete_row(table, id) ==
  IF table[id] = NoData
  THEN [table |-> table, events |-> <<>>, out |-> <<>>]
  ELSE [table |-> [table EXCEPT ![id] = NoData],
        events |-> <<RemoveEvent(Record(id, table[id]))>>,
        out |-> <<Record(id, table[id])>>]

\* Mutant of delete_selected: the loop ends after the first selected record.
delete_selected_first(table, selected) ==
  IF selected = <<>> THEN [table |-> table, events |-> <<>>, removed |-> <<>>]
  ELSE LET one == Table_delete_row(table, Head(selected).id)
       IN [table |-> one.table, events |-> one.events, removed |-> one.out]

\* QueryBuilder::delete's loop: Table::delete for each selected record, pushing
\* the record when Table::delete returned one.
RECURSIVE delete_selected(_, _)
delete_selected(table, selected) ==
  IF selected = <<>> THEN [table |-> table, events |-> <<>>, removed |-> <<>>]
  ELSE LET one == Table_delete_row(table, Head(selected).id)
           rest == delete_selected(one.table, Tail(selected))
       IN [table |-> rest.table,
           events |-> one.events \o rest.events,
           removed |-> one.out \o rest.removed]

\* The ids QueryBuilder::update hands to Table::update.
RECURSIVE record_ids(_)
record_ids(records) ==
  IF records = <<>> THEN <<>> ELSE <<Head(records).id>> \o record_ids(Tail(records))

WithinPending(chans) == \A idx \in Indexes : Len(chans[idx]) <= MaxPending

\* Lists of ids a caller passes to Table::update: one id, or two different ids.
IdLists ==
  {<<a>> : a \in Ids} \cup {ids \in {<<a, b>> : a \in Ids, b \in Ids} : ids[1] # ids[2]}

\* The indexes a condition searches.
RECURSIVE CondIndexes(_)
CondIndexes(condition) ==
  IF condition.kind = "By" THEN {condition.index}
  ELSE CondIndexes(condition.left) \cup CondIndexes(condition.right)

\* Nesting depth of a condition: 0 for a leaf.
RECURSIVE Depth(_)
Depth(condition) ==
  IF condition.kind = "By" THEN 0
  ELSE LET l == Depth(condition.left)
           r == Depth(condition.right)
       IN 1 + (IF l > r THEN l ELSE r)

\* Conditions a caller builds: every leaf, every And/Or of two leaves, and the
\* nestings of the tests (query_builder_select_combined) and their mirrors.
Leaves == {By(idx, key_func(idx, d)) : idx \in Indexes, d \in Data}
Depth1 == {And(l, r) : l \in Leaves, r \in Leaves} \cup {Or(l, r) : l \in Leaves, r \in Leaves}
Nested ==
  LET name1 == By("name", 1)
      name2 == By("name", 2)
      length == By("length", ValueLen) IN
  { And(Or(name1, name2), length), And(length, Or(name2, name1)),
    Or(And(name1, length), name2), Or(name2, And(length, name1)),
    And(Or(name2, name1), Or(name1, name2)), Or(And(name1, name1), And(name2, name2)),
    And(length, And(name1, length)) }
Conditions == Leaves \cup Depth1 \cup Nested

\* ---------------------------------------------------------------- state machine
Init ==
  /\ table_data = [id \in Ids |-> NoData]
  /\ next_id = 1
  /\ tree_names = {}
  /\ indexed_data = [idx \in Indexes |-> EmptyTree]
  /\ open = {}
  /\ rx = [idx \in Indexes |-> <<>>]
  /\ ret = [op |-> "open_table"]
  /\ closes = 0
  /\ threads = [t \in Readers |-> Idle]
  /\ writes = 0

\* Table::insert(data)
Table_insert(data) ==
  LET id == next_id
      chans == Publish(rx, open, <<InsertEvent(Record(id, data))>>) IN
  /\ next_id <= MaxId
  /\ WithinPending(chans)
  /\ table_data' = [table_data EXCEPT ![id] = data]
  /\ next_id' = next_id + 1
  /\ rx' = chans
  /\ ret' = [op |-> "Table.insert", id |-> id]
  /\ UNCHANGED <<tree_names, indexed_data, open, closes, threads, writes>>

\* Table::update(ids, new_data)
Table_update(ids, new_data) ==
  /\ \E done \in {Table_update_rows(table_data, ids, new_data)} :
     \E chans \in {Publish(rx, open, done.events)} :
       /\ WithinPending(chans)
       /\ table_data' = done.table
       /\ rx' = chans
       /\ ret' = [op |-> "Table.update", data |-> new_data, result |-> Ok(done.out)]
  /\ UNCHANGED <<next_id, tree_names, indexed_data, open, closes, threads, writes>>

\* Table::delete(id)
Table_delete(id) ==
  /\ \E done \in {Table_delete_row(table_data, id)} :
     \E chans \in {Publish(rx, open, done.events)} :
       /\ WithinPending(chans)
       /\ table_data' = done.table
       /\ rx' = chans
       /\ ret' = [op |-> "Table.delete", id |-> id, result |-> Ok(done.out)]
  /\ UNCHANGED <<next_id, tree_names, indexed_data, open, closes, threads, writes>>

\* Table::create_index(name, extractor): subscribe, then IndexInner::new.
Table_create_index(idx) ==
  /\ idx \notin open
  /\ open' = open \cup {idx}
  /\ rx' = [rx EXCEPT ![idx] = <<>>]
  /\ indexed_data' = [indexed_data EXCEPT ![idx] = Index_new(idx, tree_names, @, table_data)]
  /\ tree_names' = tree_names \cup {idx}
  /\ ret' = [op |-> "Table.create_index", index |-> idx, synced |-> idx \notin tree_names]
  /\ UNCHANGED <<table_data, next_id, closes, threads, writes>>

\* Index::select(query). The call's record keeps how many Insert events its
\* commit_log received.
Select(idx, query) ==
  LET got == Index_select(indexed_data[idx], idx, rx[idx], table_data, query) IN
  /\ idx \in open
  /\ indexed_data' = [indexed_data EXCEPT ![idx] = got.tree]
  /\ rx' = [rx EXCEPT ![idx] = <<>>]
  /\ ret' = [op |-> "Index.select", index |-> idx, key |-> query,
             inserts |-> Len(SelectSeq(rx[idx], LAMBDA event : event.type = "Insert")),
             result |-> Ok(got.out)]
  /\ UNCHANGED <<table_data, next_id, tree_names, open, closes, threads, writes>>

\* Index::sync()
Sync(idx) ==
  /\ idx \in open
  /\ indexed_data' = [indexed_data EXCEPT ![idx] = Index_sync(idx, table_data)]
  /\ ret' = [op |-> "Index.sync", index |-> idx]
  /\ UNCHANGED <<table_data, next_id, tree_names, open, rx, closes, threads, writes>>

\* What select_recursive returned for the two children of the root condition.
ChildOuts(condition, trees, chans, table) ==
  IF condition.kind = "By" THEN <<>>
  ELSE LET left == select_recursive(condition.left, trees, chans, table)
           right == select_recursive(condition.right, left.trees, left.chans, table)
       IN <<left.out, right.out>>

\* What a QueryBuilder call leaves behind when check_valid()? returns the
\* error, or when unwrap() meets a condition that was never set.
QueryBuilder_unchanged(op, result) ==
  /\ ret' = [op |-> op, given |-> FALSE, result |-> result]
  /\ UNCHANGED <<table_data, next_id, tree_names, indexed_data, open, rx, closes, threads, writes>>

\* QueryBuilder::select(); `condition` is the Option: <<>> or <<c>>.
QueryBuilder_select(condition) ==
  IF ~check_valid(condition)
  THEN QueryBuilder_unchanged("QueryBuilder.select", Err(NoCondition))
  ELSE IF condition = <<>>
  THEN QueryBuilder_unchanged("QueryBuilder.select", Panic)
  ELSE
  /\ CondIndexes(condition[1]) \subseteq open
  /\ \E got \in {select_recursive(condition[1], indexed_data, rx, table_data)} :
       /\ indexed_data' = got.trees
       /\ rx' = got.chans
       /\ ret' = [op |-> "QueryBuilder.select", given |-> TRUE,
                  kind |-> condition[1].kind, depth |-> Depth(condition[1]),
                  children |-> ChildOuts(condition[1], indexed_data, rx, table_data),
                  same |-> condition[1].kind # "By"
                             /\ condition[1].left = condition[1].right,
                  result |-> Ok(got.out)]
  /\ UNCHANGED <<table_data, next_id, tree_names, open, closes, threads, writes>>

\* QueryBuilder::update(value)
QueryBuilder_update(condition, value) ==
  IF ~check_valid(condition)
  THEN QueryBuilder_unchanged("QueryBuilder.update", Err(NoCondition))
  ELSE IF condition = <<>>
  THEN QueryBuilder_unchanged("QueryBuilder.update", Panic)
  ELSE
  /\ CondIndexes(condition[1]) \subseteq open
  /\ \E got \in {select_recursive(condition[1], indexed_data, rx, table_data)} :
     \E ids \in {record_ids(got.out)} :
     \E done \in {Table_update_rows(table_data, ids, value)} :
     \E chans \in {Publish(got.chans, open, done.events)} :
       /\ WithinPending(chans)
       /\ indexed_data' = got.trees
       /\ table_data' = done.table
       /\ rx' = chans
       /\ ret' = [op |-> "QueryBuilder.update", given |-> TRUE, data |-> value,
                  selected |-> got.out, ids |-> ids, result |-> Ok(done.out)]
  /\ UNCHANGED <<next_id, tree_names, open, closes, threads, writes>>

\* QueryBuilder::delete()
QueryBuilder_delete(condition) ==
  IF ~check_valid(condition)
  THEN QueryBuilder_unchanged("QueryBuilder.delete", Err(NoCondition))
  ELSE IF condition = <<>>
  THEN QueryBuilder_unchanged("QueryBuilder.delete", Panic)
  ELSE
  /\ CondIndexes(condition[1]) \subseteq open
  /\ \E got \in {select_recursive(condition[1], indexed_data, rx, table_data)} :
     \E done \in {delete_selected(table_data, got.out)} :
     \E chans \in {Publish(got.chans, open, done.events)} :
       /\ WithinPending(chans)
       /\ indexed_data' = got.trees
       /\ table_data' = done.table
       /\ rx' = chans
       /\ ret' = [op |-> "QueryBuilder.delete", given |-> TRUE, condition |-> condition,
                  selected |-> got.out, result |-> Ok(done.removed)]
  /\ UNCHANGED <<next_id, tree_names, open, closes, threads, writes>>

\* Callers that set a condition, and callers that may not have.
SomeConditions == {<<c>> : c \in Conditions}
OptConditions == {<<>>} \cup SomeConditions

Next ==
  \/ \E data \in Data : Table_insert(data)
  \/ \E ids \in IdLists, data \in Data : Table_update(ids, data)
  \/ \E id \in Ids : Table_delete(id)
  \/ \E idx \in Indexes : Cardinality(open) < MaxIndexes /\ Table_create_index(idx)
  \/ \E idx \in Indexes : \E query \in Keys(idx) : Select(idx, query)
  \/ \E idx \in Indexes : Sync(idx)
  \/ \E condition \in SomeConditions : QueryBuilder_select(condition)
  \/ \E condition \in SomeConditions, data \in Data : QueryBuilder_update(condition, data)
  \/ \E condition \in SomeConditions : QueryBuilder_delete(condition)

\* Sessions that create at most MaxIndexes indexes and may call Index::sync.
Spec == Init /\ [][Next]_vars

\* Sessions of the query builder's tests: both indexes, no explicit Index::sync.
NextQuery ==
  \/ \E data \in Data : Table_insert(data)
  \/ \E ids \in IdLists, data \in Data : Table_update(ids, data)
  \/ \E id \in Ids : Table_delete(id)
  \/ \E idx \in Indexes : Table_create_index(idx)
  \/ \E idx \in Indexes : \E query \in Keys(idx) : Select(idx, query)
  \/ \E condition \in OptConditions : QueryBuilder_select(condition)
  \/ \E condition \in OptConditions, data \in Data : QueryBuilder_update(condition, data)
  \/ \E condition \in OptConditions : QueryBuilder_delete(condition)

SpecQuery == Init /\ [][NextQuery]_vars

\* ---------------------------------------------------------------- properties
IdSet(records) == {records[n].id : n \in 1 .. Len(records)}
NoDuplicates(s) == \A m, n \in 1 .. Len(s) : m # n => s[m] # s[n]
Live == {id \in Ids : table_data[id] # NoData}
\* Ids the table minted and deleted again.
Deleted == {id \in Ids : id < next_id /\ table_data[id] = NoData}
\* What Index::select(query) returns when called in the current state.
SelectNow(idx, query) ==
  Index_select(indexed_data[idx], idx, rx[idx], table_data, query).out

\* C1. Completeness after inserts: an Index::select(key) that has returned
\* holds the id of every record of the table whose extractor(data) is key. In
\* the sessions of SpecQuery the index hears of every table write, so this is
\* stated for every record the table holds, which covers every inserted one.
C1_CompleteAfterSelect ==
  (ret.op = "Index.select") =>
    \A id \in Live :
      key_func(ret.index, table_data[id]) = ret.key => id \in IdSet(ret.result.value)

\* Two records inserted after the index was created came back from the select
\* that drained their two Insert events.
C1_Witness ==
  /\ ret.op = "Index.select"
  /\ ret.inserts = 2
  /\ Live = Ids
  /\ \A id \in Ids : key_func(ret.index, table_data[id]) = ret.key
  /\ IdSet(ret.result.value) = Ids

\* C9. Bucket non-emptiness: every key present in an index sub-tree maps to a
\* non-empty id list, so removing the last id of a bucket removes the key.
C9_BucketNonEmpty ==
  \A idx \in Indexes : \A key \in DOMAIN indexed_data[idx] :
    Len(indexed_data[idx][key]) >= 1

\* A drained index that lost the bucket of a deleted record while another
\* bucket is still there.
C9_Witness ==
  /\ ret.op = "Index.select"
  /\ ret.index = "name"
  /\ Deleted # {} /\ Live # {}
  /\ \E id \in Live : DOMAIN indexed_data["name"] = {table_data[id]}

\* C10. An index created while its sub-tree does not exist is back-filled
\* before create_index returns: right afterwards, with no event in its log,
\* select(extractor(data)) returns every record of the table.
C10_BackFill ==
  (ret.op = "Table.create_index" /\ ret.synced) =>
    /\ rx[ret.index] = <<>>
    /\ \A id \in Live :
         Record(id, table_data[id]) \in
           Range(SelectNow(ret.index, key_func(ret.index, table_data[id])))

\* An index was created over a table that already held two records.
C10_Witness ==
  /\ ret.op = "Table.create_index" /\ ret.synced
  /\ Live = Ids

\* C2. Minimality after delete: once an index has caught up (its select has
\* drained the log), none of its buckets holds the id of a deleted record,
\* whatever inserts, updates, deletes, syncs and selects came before.
C2_MinimalAfterDelete ==
  (ret.op = "Index.select") =>
    \A key \in DOMAIN indexed_data[ret.index] :
      Range(indexed_data[ret.index][key]) \cap Deleted = {}

\* What select(query) would return after the step.
SelectNext(idx, query) ==
  Index_select(indexed_data'[idx], idx, rx'[idx], table_data', query).out

\* C3. Update moves the id between buckets: right after a record id with
\* data v was updated to v2, select(extractor(v2)) returns id,
\* select(extractor(v)) does not unless the two keys are equal, and every
\* record the call did not update that select(extractor(v)) returned before is
\* still returned by it.
C3_UpdateMovesId ==
  [][(ret'.op \in {"Table.update", "QueryBuilder.update"} /\ ret'.result.ok) =>
       \A idx \in open : \A id \in IdSet(ret'.result.value) :
         LET old_key == key_func(idx, table_data[id])
             new_key == key_func(idx, table_data'[id])
         IN /\ id \in IdSet(SelectNext(idx, new_key))
            /\ old_key # new_key => id \notin IdSet(SelectNext(idx, old_key))
            /\ \A other \in IdSet(SelectNow(idx, old_key)) \ IdSet(ret'.result.value) :
                 other \in IdSet(SelectNext(idx, old_key))
    ]_vars

\* C4. And(left, right) is exactly the records of the left result whose id
\* appears in the right result, in the left result's order, whatever the
\* nesting of left and right; it is empty when the two share no id.
C4_AndIsLeftFilter ==
  (ret.op = "QueryBuilder.select" /\ ret.given /\ ret.kind = "And") =>
    LET left == ret.children[1]
        right == ret.children[2]
    IN /\ ret.result.value = SelectSeq(left, LAMBDA r : r.id \in IdSet(right))
       /\ IdSet(left) \cap IdSet(right) = {} => ret.result.value = <<>>

\* A nested And kept some records of its left result and dropped another.
C4_Witness ==
  /\ ret.op = "QueryBuilder.select" /\ ret.given /\ ret.kind = "And"
  /\ ret.depth = 2
  /\ Len(ret.result.value) = 1
  /\ Len(ret.children[1]) = 2

\* The positions of `s` that hold the first occurrence of their record's id.
FirstSeen(s) == {n \in 1 .. Len(s) : \A m \in 1 .. (n - 1) : s[m].id # s[n].id}
\* The p-th smallest member of a set of numbers.
Nth(S, p) == CHOOSE n \in S : Cardinality({m \in S : m <= n}) = p

\* C5. Or(left, right) is the left result followed by the right result with
\* every record whose id came earlier dropped: each id of either side once,
\* in first-seen order. Or(A, A) holds the same records as A, and is the same
\* list when A itself repeats no id.
C5_OrIsFirstSeenUnion ==
  (ret.op = "QueryBuilder.select" /\ ret.given /\ ret.kind = "Or") =>
    LET left == ret.children[1]
        right == ret.children[2]
        all == left \o right
        out == ret.result.value
    IN /\ IdSet(out) = IdSet(left) \cup IdSet(right)
       /\ Len(out) = Cardinality(IdSet(out))
       /\ Len(out) = Cardinality(FirstSeen(all))
       /\ \A p \in 1 .. Len(out) : out[p] = all[Nth(FirstSeen(all), p)]
       /\ ret.same => /\ Range(out) = Range(left)
                      /\ NoDuplicates(record_ids(left)) => out = left

\* An Or whose sides overlap: a record of the right side was dropped and
\* another one kept.
C5_Witness ==
  /\ ret.op = "QueryBuilder.select" /\ ret.given /\ ret.kind = "Or"
  /\ Len(ret.children[1]) = 1
  /\ Len(ret.children[2]) = 2
  /\ Len(ret.result.value) = 2

QueryOps == {"QueryBuilder.select", "QueryBuilder.update", "QueryBuilder.delete"}

\* C6. QueryBuilder::delete removes from the table every record its condition
\* selects and returns exactly the records this call removed, none twice;
\* right afterwards a select with the same condition (for a leaf: the same
\* index key) returns no record.
C6_DeleteRemovesSelected ==
  [][(ret'.op = "QueryBuilder.delete" /\ ret'.given) =>
       LET selected == ret'.selected
           removed == ret'.result.value
           condition == ret'.condition[1]
       IN /\ \A id \in IdSet(selected) : table_data'[id] = NoData
          /\ IdSet(removed) = {id \in Ids : table_data[id] # NoData /\ table_data'[id] = NoData}
          /\ \A n \in 1 .. Len(removed) : removed[n].data = table_data[removed[n].id]
          /\ NoDuplicates(record_ids(removed))
          /\ select_recursive(condition, indexed_data', rx', table_data').out = <<>>
          /\ condition.kind = "By" => SelectNext(condition.index, condition.value) = <<>>
    ]_vars

\* A delete whose selection named a record twice removed and returned it once.
C6_Witness ==
  /\ ret.op = "QueryBuilder.delete" /\ ret.given
  /\ Len(ret.selected) = 2
  /\ Len(ret.result.value) = 1

\* C7. QueryBuilder::update hands Table::update the selected ids, none
\* repeated, and returns one record per selected id, with that id and the new
\* data; records the condition did not select keep their data.
C7_UpdateSelectedOnce ==
  [][(ret'.op = "QueryBuilder.update" /\ ret'.given) =>
       LET selected == IdSet(ret'.selected)
           updated == ret'.result.value
       IN /\ NoDuplicates(ret'.ids)
          /\ Range(ret'.ids) = selected
          /\ IdSet(updated) = selected
          /\ Len(updated) = Cardinality(selected)
          /\ \A n \in 1 .. Len(updated) :
               /\ updated[n].data = ret'.data
               /\ table_data'[updated[n].id] = ret'.data
          /\ \A id \in Ids \ selected : table_data'[id] = table_data[id]
    ]_vars

\* C8. A QueryBuilder select, update or delete whose condition was never set
\* fails with the QueryBuilder error "No search condition provided" and leaves
\* the table, every index sub-tree and every change log as they were.
C8_NoConditionFails ==
  [][(ret'.op \in QueryOps /\ ~ret'.given) =>
       /\ ret'.result = [ok |-> FALSE, error |-> "No search condition provided"]
       /\ table_data' = table_data
       /\ indexed_data' = indexed_data
       /\ rx' = rx
    ]_vars

\* An update without a condition failed while a record was in the table and
\* an event was waiting in a log.
C8_Witness ==
  /\ ret.op = "QueryBuilder.update" /\ ~ret.given
  /\ ~ret.result.ok
  /\ Live # {}
  /\ \E idx \in open : rx[idx] # <<>>

\* The bucket of `key` in an index sub-tree, the empty list when the key is absent.
Bucket(tree, key) == IF key \in DOMAIN tree THEN tree[key] ELSE <<>>

\* How many times `id` occurs in a list of ids.
Count(ids, id) == Len(SelectSeq(ids, LAMBDA other : other = id))

\* The step is an Index::select on `idx` whose commit_log received exactly one
\* event, of the given type.
ReplaysOne(idx, type) ==
  /\ ret'.op = "Index.select" /\ ret'.index = idx
  /\ Len(rx[idx]) = 1
  /\ rx[idx][1].type = type

\* C13. Replaying Remove(r) while the bucket of extractor(r.data) exists and
\* does not hold r.id changes nothing: the bucket and the whole sub-tree stay
\* as they were, also when the bucket holds exactly one other id.
C13_AbsentRemoveIsNoOp ==
  [][\A idx \in open :
       (/\ ReplaysOne(idx, "Remove")
        /\ LET record == rx[idx][1].record
               key == key_func(idx, record.data)
           IN /\ key \in DOMAIN indexed_data[idx]
              /\ record.id \notin Range(indexed_data[idx][key]))
       => indexed_data'[idx] = indexed_data[idx]
    ]_vars

\* C14. Index::sync rebuilds the index to match the table whatever is still
\* waiting in the change log: the Index::select(k) right after a sync returns
\* exactly the records of the table whose extractor(data) is k, each once.
C14_SyncThenSelectExact ==
  [][(/\ ret.op = "Index.sync"
      /\ ret'.op = "Index.select" /\ ret'.index = ret.index)
     => LET out == ret'.result.value
        IN /\ IdSet(out) = {id \in Live : key_func(ret.index, table_data[id]) = ret'.key}
           /\ NoDuplicates(record_ids(out))
           /\ \A n \in 1 .. Len(out) : out[n].data = table_data[out[n].id]
    ]_vars

\* C15. Replaying Update{id, old, new} with extractor(old) = extractor(new)
\* leaves id exactly once in that bucket, with every other id the bucket held.
C15_SameKeyUpdateKeepsBucket ==
  [][\A idx \in open :
       (/\ ReplaysOne(idx, "Update")
        /\ key_func(idx, rx[idx][1].old_data) = key_func(idx, rx[idx][1].new_data))
       => LET id == rx[idx][1].id
              key == key_func(idx, rx[idx][1].new_data)
              before == Bucket(indexed_data[idx], key)
              after == Bucket(indexed_data'[idx], key)
          IN /\ Count(after, id) = 1
             /\ \A other \in Range(before) \ {id} : Count(after, other) = Count(before, other)
    ]_vars

\* C16. No duplicate ids: no bucket holds an id twice, no id is in two buckets
\* of one index, and an Index::select never returns two records of one id.
C16_NoDuplicateIds ==
  /\ \A idx \in Indexes :
       /\ \A key \in DOMAIN indexed_data[idx] : NoDuplicates(indexed_data[idx][key])
       /\ \A key1, key2 \in DOMAIN indexed_data[idx] :
            key1 # key2 =>
              Range(indexed_data[idx][key1]) \cap Range(indexed_data[idx][key2]) = {}
  /\ ret.op = "Index.select" => NoDuplicates(record_ids(ret.result.value))

\* ---------------------------------------------------------------- close and re-open
\* The database is closed and opened again: every index handle and its
\* in-memory change log are dropped, the sub-trees stay in the engine.
Close ==
  /\ closes < MaxCloses
  /\ open # {}
  /\ open' = {}
  /\ rx' = [idx \in Indexes |-> <<>>]
  /\ closes' = closes + 1
  /\ ret' = [op |-> "close"]
  /\ UNCHANGED <<table_data, next_id, tree_names, indexed_data, threads, writes>>

NextReopen ==
  \/ \E data \in Data : Table_insert(data)
  \/ \E ids \in IdLists, data \in Data : Table_update(ids, data)
  \/ \E id \in Ids : Table_delete(id)
  \/ \E idx \in Indexes : Cardinality(open) < MaxIndexes /\ Table_create_index(idx)
  \/ \E idx \in Indexes : \E query \in Keys(idx) : Select(idx, query)
  \/ Close

\* Sessions that close the database and create the index again under its name.
SpecReopen == Init /\ [][NextReopen]_vars

\* C19. An index created under a name whose sub-tree exists is not synced,
\* and the select(k) right after this re-open returns every record of the
\* table whose extractor(data) is k, the records written while their events
\* were still in the dropped change log included.
C19_ReopenKeepsIndex ==
  [][(/\ ret.op = "Table.create_index" /\ ~ret.synced
      /\ ret'.op = "Index.select" /\ ret'.index = ret.index)
     => \A id \in Live :
          key_func(ret.index, table_data[id]) = ret'.key
            => id \in IdSet(ret'.result.value)
    ]_vars

\* ---------------------------------------------------------------- threads
\* Index::select run by threads that share one index handle, one storage
\* engine call or one channel call per step. Table writes stay whole calls.

\* The sub-tree writes commit_log makes for one received event.
Ops(event) ==
  IF event.type = "Insert" THEN <<[op |-> "insert", record |-> event.record]>>
  ELSE IF event.type = "Remove" THEN <<[op |-> "delete", record |-> event.record]>>
  ELSE <<[op |-> "delete", record |-> Record(event.id, event.old_data)],
         [op |-> "insert", record |-> Record(event.id, event.new_data)]>>

\* indexed_data.get(key): a list of at most one bucket.
TreeGet(tree, key) == IF key \in DOMAIN tree THEN <<tree[key]>> ELSE <<>>

\* The write IndexInner::insert makes after it read `got` for the key.
insert_write(tree, key, got, id) ==
  IF got # <<>>
  THEN TreeInsert(tree, key, Append(got[1], id))
  ELSE TreeInsert(tree, key, <<id>>)

\* The write IndexInner::delete makes after it read `got` for the key.
delete_write(tree, key, got, id) ==
  IF got # <<>>
  THEN LET index_values == got[1] IN
       IF Len(index_values) < 2
       THEN TreeRemove(tree, key)
       ELSE IF id \in Range(index_values)
            THEN LET pos == CHOOSE n \in 1 .. Len(index_values) :
                              /\ index_values[n] = id
                              /\ \A m \in 1 .. (n - 1) : index_values[m] # id
                 IN TreeInsert(tree, key, RemoveAt(index_values, pos))
            ELSE tree
  ELSE tree

\* The thread has received an event and not yet made all its writes.
Holding(t) == threads[t].pc \in {"read", "write"}
\* The thread is inside commit_log.
Draining(t) == threads[t].pc \in {"recv", "read", "write"}

\* Index::select(query) is called: the thread enters commit_log.
Select_call(t, idx, query) ==
  /\ threads[t].pc = "idle"
  /\ idx \in open
  /\ threads' = [threads EXCEPT ![t] =
       [Idle EXCEPT !.pc = "recv", !.index = idx, !.query = query,
                    !.backlog = Len(rx[idx]),
                    !.owed = {u \in Readers \ {t} : Holding(u) /\ threads[u].index = idx}]]
  /\ UNCHANGED <<table_data, next_id, tree_names, indexed_data, open, rx, ret, closes, writes>>

\* commit_log: subscriber.rx.try_recv(). An empty channel ends the loop.
Commit_recv(t) ==
  /\ threads[t].pc = "recv"
  /\ LET idx == threads[t].index IN
     IF rx[idx] = <<>>
     THEN /\ threads' = [threads EXCEPT ![t].pc = "lookup"]
          /\ rx' = rx
     ELSE /\ rx' = [rx EXCEPT ![idx] = Tail(rx[idx])]
          /\ threads' = [u \in Readers |->
               IF u = t
               THEN [threads[t] EXCEPT
                       !.pc = "read",
                       !.todo = Ops(Head(rx[idx])),
                       !.backlog = IF @ > 0 THEN @ - 1 ELSE 0,
                       !.after = {v \in Readers \ {t} : Holding(v) /\ threads[v].index = idx}]
               ELSE IF Draining(u) /\ threads[u].index = idx /\ threads[u].backlog > 0
               THEN [threads[u] EXCEPT !.backlog = @ - 1, !.owed = @ \cup {t}]
               ELSE threads[u]]
  /\ UNCHANGED <<table_data, next_id, tree_names, indexed_data, open, ret, closes, writes>>

\* IndexInner::insert / IndexInner::delete: indexed_data.get(&key).
Apply_read(t) ==
  /\ threads[t].pc = "read"
  /\ LET idx == threads[t].index
         record == Head(threads[t].todo).record
     IN threads' = [threads EXCEPT
          ![t].pc = "write",
          ![t].got = TreeGet(indexed_data[idx], key_func(idx, record.data))]
  /\ UNCHANGED <<table_data, next_id, tree_names, indexed_data, open, rx, ret, closes, writes>>

\* IndexInner::insert / IndexInner::delete: the insert or remove that follows
\* the get. After the last write of an event the thread is back at try_recv.
Apply_write(t) ==
  /\ threads[t].pc = "write"
  /\ LET idx == threads[t].index
         todo == threads[t].todo
         record == Head(todo).record
         key == key_func(idx, record.data)
         got == threads[t].got
     IN /\ indexed_data' = [indexed_data EXCEPT ![idx] =
             IF Head(todo).op = "insert"
             THEN insert_write(@, key, got, record.id)
             ELSE delete_write(@, key, got, record.id)]
        /\ threads' = [u \in Readers |->
             IF u = t
             THEN [threads[t] EXCEPT
                     !.pc = IF Tail(todo) = <<>> THEN "recv" ELSE "read",
                     !.todo = Tail(todo),
                     !.got = <<>>,
                     !.after = IF Tail(todo) = <<>> THEN {} ELSE @]
             ELSE IF Tail(todo) = <<>>
             THEN [threads[u] EXCEPT !.owed = @ \ {t}, !.after = @ \ {t}]
             ELSE threads[u]]
  /\ UNCHANGED <<table_data, next_id, tree_names, open, rx, ret, closes, writes>>

\* IndexInner::select: indexed_data.get(query).
Lookup(t) ==
  /\ threads[t].pc = "lookup"
  /\ threads' = [threads EXCEPT
       ![t].pc = "hydrate",
       ![t].uuids = Bucket(indexed_data[threads[t].index], threads[t].query)]
  /\ UNCHANGED <<table_data, next_id, tree_names, indexed_data, open, rx, ret, closes, writes>>

\* IndexInner::select: table_data.get of the next uuid; a row that is there
\* is pushed to the results.
Hydrate_next(t) ==
  /\ threads[t].pc = "hydrate"
  /\ threads[t].uuids # <<>>
  /\ LET uuid == Head(threads[t].uuids) IN
     threads' = [threads EXCEPT
       ![t].uuids = Tail(@),
       ![t].out = IF table_data[uuid] # NoData
                  THEN Append(@, Record(uuid, table_data[uuid]))
                  ELSE @]
  /\ UNCHANGED <<table_data, next_id, tree_names, indexed_data, open, rx, ret, closes, writes>>

\* IndexInner::select returns the results (threads[t].out) to its caller.
Select_return(t) ==
  /\ threads[t].pc = "hydrate"
  /\ threads[t].uuids = <<>>
  /\ threads' = [threads EXCEPT ![t] = Idle]
  /\ UNCHANGED <<table_data, next_id, tree_names, indexed_data, open, rx, ret, closes, writes>>

\* One step of a thread inside Index::select.
Reader(t) ==
  \/ Commit_recv(t)
  \/ Apply_read(t)
  \/ Apply_write(t)
  \/ Lookup(t)
  \/ Hydrate_next(t)
  \/ Select_return(t)

\* The index the threads share.
Shared == "name"

\* A table write by a writing thread: the new primary sub-tree and the events
\* it publishes. What the call returns goes to the writing thread.
Write(table, events) ==
  /\ Len(rx[Shared]) + Len(events) <= MaxBacklog
  /\ table_data' = table
  /\ rx' = Publish(rx, open, events)
  /\ UNCHANGED <<tree_names, indexed_data, open, ret, closes, threads>>

\* Table::insert(data) by a writing thread.
Write_insert(data) ==
  /\ next_id <= MaxId
  /\ next_id' = next_id + 1
  /\ Write([table_data EXCEPT ![next_id] = data],
           <<InsertEvent(Record(next_id, data))>>)

\* Table::update([id], new_data) by a writing thread.
Write_update(id, new_data) ==
  /\ table_data[id] # NoData
  /\ next_id' = next_id
  /\ LET done == Table_update_rows(table_data, <<id>>, new_data)
     IN Write(done.table, done.events)

\* Table::delete(id) by a writing thread.
Write_delete(id) ==
  /\ table_data[id] # NoData
  /\ next_id' = next_id
  /\ LET done == Table_delete_row(table_data, id)
     IN Write(done.table, done.events)

\* One of at most MaxWrites table writes.
Counted(write) ==
  /\ writes < MaxWrites
  /\ writes' = writes + 1
  /\ write

NextThreads ==
  \/ Table_create_index(Shared)
  \/ \E data \in Data : Counted(Write_insert(data))
  \/ \E id \in Ids, data \in Data : Counted(Write_update(id, data))
  \/ \E id \in Ids : Counted(Write_delete(id))
  \/ \E t \in Readers : \E query \in Keys(Shared) : Select_call(t, Shared, query)
  \/ \E t \in Readers : Reader(t)

\* Threads writing the table while MaxReaders threads select on one index.
SpecThreads == Init /\ [][NextThreads]_vars

\* C11. Read visibility: when a select looks its bucket up, every event that
\* was published before the call began has been applied to the sub-tree, also
\* when another thread is inside commit_log of the same index: no such event
\* is still in the channel or held, not yet applied, by another thread.
C11_SelectSeesEarlierEvents ==
  [][\A t \in Readers :
       (threads[t].pc = "lookup" /\ threads'[t].pc = "hydrate")
       => /\ threads[t].backlog = 0
          /\ threads[t].owed = {}
    ]_vars

\* C12. Monotone event order: a thread writes an event to the sub-tree only
\* when every event received from the channel before it has been applied.
C12_EventsAppliedInOrder ==
  [][\A t \in Readers :
       (threads[t].pc = "write" /\ threads'[t].pc # "write")
       => threads[t].after = {}
    ]_vars

\* The shared index holds exactly the records of the table: every record's id
\* is in the bucket of its key, and every id of a bucket is a record of the
\* table with that key.
IndexMatchesTable ==
  LET tree == indexed_data[Shared] IN
  /\ \A id \in Live : id \in Range(Bucket(tree, key_func(Shared, table_data[id])))
  /\ \A key \in DOMAIN tree : \A id \in Range(tree[key]) :
       id \in Live /\ key_func(Shared, table_data[id]) = key

\* C17. Concurrent readers lose no index update: once every select has
\* returned and the channel is empty, the index is complete and minimal.
C17_ReadersLoseNoUpdate ==
  (/\ Shared \in open
   /\ rx[Shared] = <<>>
   /\ \A t \in Readers : threads[t].pc = "idle")
  => IndexMatchesTable

\* C18. Every record a select(key) returns has extractor(data) = key, also
\* when the table is written between the drain and the hydration. (The
\* record is the row the table held when its id was hydrated.)
C18_ReturnedRecordsHaveKey ==
  [][\A t \in Readers :
       (threads[t].pc = "hydrate" /\ threads'[t].pc = "idle")
       => \A n \in 1 .. Len(threads[t].out) :
            key_func(threads[t].index, threads[t].out[n].data) = threads[t].query
    ]_vars

\* ---------------------------------------------------------------- one reader, writers that never stop
NextDrain ==
  \/ Table_create_index(Shared)
  \/ \E data \in Data : Write_insert(data) /\ UNCHANGED writes
  \/ \E id \in Ids, data \in Data : Write_update(id, data) /\ UNCHANGED writes
  \/ \E id \in Ids : Write_delete(id) /\ UNCHANGED writes
  \/ \E query \in Keys(Shared) : Select_call(1, Shared, query)
  \/ Reader(1)

\* One thread reads, under weak fairness of its steps (the scheduler runs a
\* thread that can run); the writing threads are under no fairness.
SpecDrain == Init /\ [][NextDrain]_vars /\ WF_vars(Reader(1))

\* C20. Termination of reads: a select that was called returns.
C20_SelectReturns == (threads[1].pc # "idle") ~> (threads[1].pc = "idle")

====
